---- MODULE Spec2Model ----
(***************************************************************************)
(* A model of script.py, the MSSQL -> PostgreSQL dump converter.           *)
(*                                                                         *)
(* Text is a sequence of characters, a character a one-character string.   *)
(* The regular expressions of the source are kept as syntax trees and run  *)
(* by step, which carries the matches in progress in the order in which    *)
(* Python's re tries them (leftmost start, greedy before lazy, an optional *)
(* part taken first, left alternative first).                              *)
(***************************************************************************)
EXTENDS Integers, Sequences, FiniteSets, TLC

----------------------------------------------------------------------------
(* Characters and the str methods the source uses. *)

UpperLetters == <<"A", "B", "C", "D", "E", "F", "G", "H", "I", "J", "K", "L", "M", "N", "O", "P", "Q", "R", "S", "T", "U", "V", "W", "X", "Y", "Z">>
LowerLetters == <<"a", "b", "c", "d", "e", "f", "g", "h", "i", "j", "k", "l", "m", "n", "o", "p", "q", "r", "s", "t", "u", "v", "w", "x", "y", "z">>
Digits == {"0", "1", "2", "3", "4", "5", "6", "7", "8", "9"}
Whitespace == {" ", "\n", "\t"}
Letters == {UpperLetters[i] : i \in 1..26} \cup {LowerLetters[i] : i \in 1..26}
WordChars == Letters \cup Digits \cup {"_"}

Min(S) == CHOOSE x \in S : \A y \in S : x <= y
Max(S) == CHOOSE x \in S : \A y \in S : x >= y

\* str.upper and str.lower on the letters
to_upper ==
    [c \in {LowerLetters[i] : i \in 1..26} |->
        UpperLetters[CHOOSE i \in 1..26 : LowerLetters[i] = c]]

to_lower ==
    [c \in {UpperLetters[i] : i \in 1..26} |->
        LowerLetters[CHOOSE i \in 1..26 : UpperLetters[i] = c]]

upper_char(c) ==
    IF c \in DOMAIN to_upper THEN to_upper[c] ELSE c

lower_char(c) ==
    IF c \in DOMAIN to_lower THEN to_lower[c] ELSE c

upper(s) == [i \in 1..Len(s) |-> upper_char(s[i])]

lower(s) == [i \in 1..Len(s) |-> lower_char(s[i])]

\* the places of s that hold no whitespace
ink(s) == {i \in 1..Len(s) : s[i] \notin Whitespace}

strip(s) == IF ink(s) = {} THEN <<>> ELSE SubSeq(s, Min(ink(s)), Max(ink(s)))

rstrip_char(s, c) ==
    IF \A i \in 1..Len(s) : s[i] = c THEN <<>>
    ELSE SubSeq(s, 1, Max({i \in 1..Len(s) : s[i] # c}))

startswith(s, p) == Len(s) >= Len(p) /\ SubSeq(s, 1, Len(p)) = p

endswith(s, p) == Len(s) >= Len(p) /\ SubSeq(s, Len(s) - Len(p) + 1, Len(s)) = p

\* p in s
contains(s, p) == \E i \in 1..(Len(s) - Len(p) + 1) : SubSeq(s, i, i + Len(p) - 1) = p

\* s.split(c) for a one-character separator
RECURSIVE split_char(_, _)
split_char_at(s, c, i) == <<SubSeq(s, 1, i - 1)>> \o split_char(SubSeq(s, i + 1, Len(s)), c)

split_char(s, c) ==
    IF \E i \in 1..Len(s) : s[i] = c
    THEN split_char_at(s, c, CHOOSE i \in 1..Len(s) : s[i] = c /\ \A j \in 1..(i - 1) : s[j] # c)
    ELSE <<s>>

\* s.find(p) + 1, for p in s
find(s, p) == Min({i \in 1..(Len(s) - Len(p) + 1) : SubSeq(s, i, i + Len(p) - 1) = p})

\* s.replace(old, new) for a non-empty old: every non-overlapping occurrence,
\* left to right; i is the place of the first
RECURSIVE replace(_, _, _)
replace_at(s, old, new, i) ==
    SubSeq(s, 1, i - 1) \o new \o replace(SubSeq(s, i + Len(old), Len(s)), old, new)

replace(s, old, new) == IF ~contains(s, old) THEN s ELSE replace_at(s, old, new, find(s, old))

\* sep.join(xs)
RECURSIVE join(_, _)
join(sep, xs) ==
    IF xs = <<>> THEN <<>>
    ELSE IF Len(xs) = 1 THEN xs[1]
    ELSE xs[1] \o sep \o join(sep, Tail(xs))

----------------------------------------------------------------------------
(* Regular expressions: syntax trees and the matcher. *)

Ch(cs) == [k |-> "set", cs |-> cs, neg |-> FALSE]
NotCh(cs) == [k |-> "set", cs |-> cs, neg |-> TRUE]
AnyChar == [k |-> "any"]
Lit(str) == [k |-> "lit", str |-> str]
Cat(xs) == [k |-> "cat", xs |-> xs]
Alt(xs) == [k |-> "alt", xs |-> xs]
Opt(x) == [k |-> "opt", x |-> x]
\* x* , x+ and x*? for a one-character pattern x, as all of the source's are
Star(x) == [k |-> "run", x |-> x, min |-> 0, greedy |-> TRUE]
Plus(x) == [k |-> "run", x |-> x, min |-> 1, greedy |-> TRUE]
LazyStar(x) == [k |-> "run", x |-> x, min |-> 0, greedy |-> FALSE]
Grp(n, x) == [k |-> "grp", n |-> n, x |-> x]
Bos == [k |-> "bos"]
Eos == [k |-> "eos"]
WordBoundary == [k |-> "wb"]
Space == Ch(Whitespace)
Digit == Ch(Digits)
Word == Ch(WordChars)

\* No pattern of the source has more than two groups.
MaxGroups == 2
NoGroups == [n \in 1..MaxGroups |-> <<0, 0>>]
NoMatch == [ok |-> FALSE, b |-> 0, e |-> 0, g |-> NoGroups]

same_char(c, d, ic) == IF ic THEN upper_char(c) = upper_char(d) ELSE c = d

\* whether the one-character pattern x matches the character c
char_matches(x, c, ic) ==
    IF x.k = "any" THEN TRUE ELSE (\E d \in x.cs : same_char(c, d, ic)) # x.neg

is_word_at(s, i) == i >= 1 /\ i <= Len(s) /\ s[i] \in WordChars

\* A match in progress began at b, has come to e and holds the groups g. The
\* matches in progress are kept in the order in which backtracking tries
\* them: by their beginning, then a greedy run from its longest and a lazy
\* one from its shortest, an optional part taken before it is left out, and
\* the alternatives from the left. The first that comes through the whole
\* pattern is the match.
start_at(i) == [b |-> i, e |-> i, g |-> NoGroups]

advance(ms, n) == [j \in 1..Len(ms) |-> [ms[j] EXCEPT !.e = @ + n]]

lit_at(str, s, i, ic) ==
    /\ i + Len(str) - 1 <= Len(s)
    /\ \A j \in 1..Len(str) : same_char(s[i + j - 1], str[j], ic)

\* where the run of x from i stops
run_stop(x, s, i, ic) ==
    CHOOSE j \in i..(Len(s) + 1) :
        /\ j = Len(s) + 1 \/ ~char_matches(x, s[j], ic)
        /\ \A k \in i..(j - 1) : char_matches(x, s[k], ic)

\* the ends of the run x from m, which stops at stop, in the order tried: a
\* greedy run gives back characters from the longest, a lazy one takes them
\* from the shortest
run_to(x, m, stop) ==
    IF stop - m.e < x.min THEN <<>>
    ELSE [c \in 1..(stop - m.e - x.min + 1) |->
             [m EXCEPT !.e = IF x.greedy THEN stop - c + 1 ELSE m.e + x.min + c - 1]]

RECURSIVE step(_, _, _, _)
RECURSIVE alternatives(_, _, _, _, _)
RECURSIVE spread(_, _, _, _, _, _)
RECURSIVE cat_step(_, _, _, _, _, _)

\* the alternatives xs[n], xs[n + 1], ... from the match m
alternatives(xs, n, s, m, ic) ==
    IF n > Len(xs) THEN <<>>
    ELSE step(xs[n], s, <<m>>, ic) \o alternatives(xs, n + 1, s, m, ic)

\* a run, an optional part or alternatives, from one match m
step_one(x, s, m, ic) ==
    CASE x.k = "run" -> run_to(x, m, run_stop(x.x, s, m.e, ic))
      [] x.k = "opt" -> step(x.x, s, <<m>>, ic) \o <<m>>
      [] x.k = "alt" -> alternatives(x.xs, 1, s, m, ic)

\* the same from the matches ms[lo..hi], one after the other
spread(x, s, ms, ic, lo, hi) ==
    IF lo > hi THEN <<>>
    ELSE IF lo = hi THEN step_one(x, s, ms[lo], ic)
    ELSE spread(x, s, ms, ic, lo, (lo + hi) \div 2)
         \o spread(x, s, ms, ic, (lo + hi) \div 2 + 1, hi)

\* the patterns xs[lo..hi] one after the other
cat_step(xs, s, ms, ic, lo, hi) ==
    IF ms = <<>> \/ lo > hi THEN ms
    ELSE IF lo = hi THEN step(xs[lo], s, ms, ic)
    ELSE cat_step(xs, s, cat_step(xs, s, ms, ic, lo, (lo + hi) \div 2), ic,
                  (lo + hi) \div 2 + 1, hi)

\* group n ends where the match has come to
close_group(ms, n) == [j \in 1..Len(ms) |-> [ms[j] EXCEPT !.g[n][2] = ms[j].e]]

\* the matches ms carried through the pattern x
step(x, s, ms, ic) ==
    CASE x.k \in {"set", "any"} ->
             advance(SelectSeq(ms, LAMBDA m : m.e <= Len(s) /\ char_matches(x, s[m.e], ic)), 1)
      [] x.k = "lit" -> advance(SelectSeq(ms, LAMBDA m : lit_at(x.str, s, m.e, ic)), Len(x.str))
      [] x.k = "cat" -> cat_step(x.xs, s, ms, ic, 1, Len(x.xs))
      [] x.k = "grp" ->
             close_group(step(x.x, s, [j \in 1..Len(ms) |->
                                          [ms[j] EXCEPT !.g[x.n] = <<ms[j].e, ms[j].e>>]], ic),
                         x.n)
      [] x.k = "bos" -> SelectSeq(ms, LAMBDA m : m.e = 1)
      [] x.k = "eos" ->
             SelectSeq(ms, LAMBDA m : m.e = Len(s) + 1 \/ (m.e = Len(s) /\ s[m.e] = "\n"))
      [] x.k = "wb" -> SelectSeq(ms, LAMBDA m : is_word_at(s, m.e - 1) # is_word_at(s, m.e))
      [] OTHER -> spread(x, s, ms, ic, 1, Len(ms))

\* the match that backtracking finds first
first_match(ms) ==
    IF ms = <<>> THEN NoMatch
    ELSE [ok |-> TRUE, b |-> ms[1].b, e |-> ms[1].e, g |-> ms[1].g]

\* re.match(p, s[i - 1:]) with the positions of s
re_match_at(p, s, i, ic) == first_match(step(p, s, <<start_at(i)>>, ic))

\* re.search from position from on. In re_search, re_findall, re_split and
\* re_sub the text s is computed before the pattern is run on it.
re_search_from(p, s, from, ic) ==
    first_match(step(p, s, [j \in 1..(Len(s) + 2 - from) |-> start_at(from + j - 1)], ic))

re_search(p, s, ic) == CHOOSE r \in {re_search_from(p, t, 1, ic) : t \in {s}} : TRUE

\* m.group(n)
group(s, m, n) ==
    IF n = 0 THEN SubSeq(s, m.b, m.e - 1) ELSE SubSeq(s, m.g[n][1], m.g[n][2] - 1)

\* re.findall(p, s) for a pattern with one group that matches no empty
\* text: the texts of group 1; m is the next match
RECURSIVE re_findall_from(_, _, _, _)
findall_next(p, s, ic, m) ==
    IF ~m.ok THEN <<>> ELSE <<group(s, m, 1)>> \o re_findall_from(p, s, m.e, ic)

re_findall_from(p, s, from, ic) == findall_next(p, s, ic, re_search_from(p, s, from, ic))

re_findall(p, s, ic) == CHOOSE r \in {re_findall_from(p, t, 1, ic) : t \in {s}} : TRUE

\* re.split(p, s) for a pattern without groups that matches no empty text
RECURSIVE re_split_from(_, _, _, _)
split_next(p, s, from, ic, m) ==
    IF ~m.ok THEN <<SubSeq(s, from, Len(s))>>
    ELSE <<SubSeq(s, from, m.b - 1)>> \o re_split_from(p, s, m.e, ic)

re_split_from(p, s, from, ic) == split_next(p, s, from, ic, re_search_from(p, s, from, ic))

re_split(p, s, ic) == CHOOSE r \in {re_split_from(p, t, 1, ic) : t \in {s}} : TRUE

\* re.sub(p, repl, s) for a pattern that matches no empty text, where repl
\* is a fixed text (n = 0) or the group \n
RECURSIVE re_sub_from(_, _, _, _, _, _)
sub_next(p, repl, n, s, from, ic, m) ==
    IF ~m.ok THEN SubSeq(s, from, Len(s))
    ELSE SubSeq(s, from, m.b - 1) \o (IF n = 0 THEN repl ELSE group(s, m, n))
         \o re_sub_from(p, repl, n, s, m.e, ic)

re_sub_from(p, repl, n, s, from, ic) ==
    sub_next(p, repl, n, s, from, ic, re_search_from(p, s, from, ic))

re_sub(p, repl, n, s, ic) ==
    CHOOSE r \in {re_sub_from(p, repl, n, t, 1, ic) : t \in {s}} : TRUE

----------------------------------------------------------------------------
(* TYPE_MAPPING, in declaration order. *)

TYPE_MAPPING ==
    << <<<<"N", "V", "A", "R", "C", "H", "A", "R">>, <<"V", "A", "R", "C", "H", "A", "R">>>>,
       <<<<"N", "T", "E", "X", "T">>, <<"T", "E", "X", "T">>>>,
       <<<<"D", "A", "T", "E", "T", "I", "M", "E">>, <<"T", "I", "M", "E", "S", "T", "A", "M", "P">>>>,
       <<<<"S", "M", "A", "L", "L", "D", "A", "T", "E", "T", "I", "M", "E">>, <<"T", "I", "M", "E", "S", "T", "A", "M", "P">>>>,
       <<<<"U", "N", "I", "Q", "U", "E", "I", "D", "E", "N", "T", "I", "F", "I", "E", "R">>, <<"U", "U", "I", "D">>>>,
       <<<<"M", "O", "N", "E", "Y">>, <<"D", "E", "C", "I", "M", "A", "L", "(", "1", "9", ",", "4", ")">>>>,
       <<<<"S", "M", "A", "L", "L", "M", "O", "N", "E", "Y">>, <<"D", "E", "C", "I", "M", "A", "L", "(", "1", "0", ",", "4", ")">>>>,
       <<<<"I", "M", "A", "G", "E">>, <<"B", "Y", "T", "E", "A">>>>,
       <<<<"B", "I", "T">>, <<"B", "O", "O", "L", "E", "A", "N">>>>,
       <<<<"T", "I", "N", "Y", "I", "N", "T">>, <<"S", "M", "A", "L", "L", "I", "N", "T">>>>,
       <<<<"R", "E", "A", "L">>, <<"R", "E", "A", "L">>>>,
       <<<<"F", "L", "O", "A", "T">>, <<"D", "O", "U", "B", "L", "E", " ", "P", "R", "E", "C", "I", "S", "I", "O", "N">>>>,
       <<<<"V", "A", "R", "B", "I", "N", "A", "R", "Y">>, <<"B", "Y", "T", "E", "A">>>>,
       <<<<"B", "I", "N", "A", "R", "Y">>, <<"B", "Y", "T", "E", "A">>>>,
       <<<<"T", "I", "M", "E", "S", "T", "A", "M", "P">>, <<"B", "Y", "T", "E", "A">>>> >>

\* base_type in TYPE_MAPPING
in_type_mapping(t) == \E i \in 1..Len(TYPE_MAPPING) : TYPE_MAPPING[i][1] = t

\* TYPE_MAPPING[base_type]
type_mapping_of(t) == TYPE_MAPPING[CHOOSE i \in 1..Len(TYPE_MAPPING) : TYPE_MAPPING[i][1] = t][2]

\* TYPE_MAPPING.get(t, default)
type_mapping_get(t, default) == IF in_type_mapping(t) THEN type_mapping_of(t) ELSE default

----------------------------------------------------------------------------
(* clean_identifier *)

\* r'\[dbo\]\.'
re_dbo == Lit(<<"[", "d", "b", "o", "]", ".">>)

\* r'\[([^\]]+)\]'
re_bracketed == Cat(<<Ch({"["}), Grp(1, Plus(NotCh({"]"}))), Ch({"]"})>>)

\* clean_identifier with the strip before the brackets are removed
clean_identifier_strip_first(identifier) ==
    re_sub(re_bracketed, <<>>, 1, re_sub(re_dbo, <<>>, 0, lower(strip(identifier)), FALSE), FALSE)

clean_identifier(identifier) ==
    lower(strip(re_sub(re_bracketed, <<>>, 1, re_sub(re_dbo, <<>>, 0, identifier, FALSE), FALSE)))

----------------------------------------------------------------------------
(* extract_type_size and convert_type_with_size *)

\* r'(\w+)\s*\((\d+(?:,\s*\d+)?)\)'
re_type_size ==
    Cat(<<Grp(1, Plus(Word)), Star(Space), Ch({"("}),
          Grp(2, Cat(<<Plus(Digit), Opt(Cat(<<Ch({","}), Star(Space), Plus(Digit)>>))>>)),
          Ch({")"})>>)

\* the pair (base_type, size) for the match size_match; has_size is FALSE
\* where the source returns None
type_size_of(data_type, size_match) ==
    IF size_match.ok
    THEN [base_type |-> upper(group(data_type, size_match, 1)),
          has_size |-> TRUE, size |-> group(data_type, size_match, 2)]
    ELSE [base_type |-> upper(data_type), has_size |-> FALSE, size |-> <<>>]

extract_type_size(data_type) ==
    type_size_of(data_type, re_search(re_type_size, data_type, FALSE))

\* convert_type_with_size from "if base_type in TYPE_MAPPING" on
type_with_size(mssql_type, base_type, has_size, size) ==
    IF in_type_mapping(base_type)
    THEN IF contains(type_mapping_of(base_type), <<"(">>) \/ ~has_size
         THEN type_mapping_of(base_type)
         ELSE type_mapping_of(base_type) \o <<"(">> \o size \o <<")">>
    ELSE IF has_size THEN lower(base_type) \o <<"(">> \o size \o <<")">>
    ELSE lower(mssql_type)

type_with_size_of(mssql_type, ts) == type_with_size(mssql_type, ts.base_type, ts.has_size, ts.size)

convert_type_with_size(mssql_type) == type_with_size_of(mssql_type, extract_type_size(mssql_type))

----------------------------------------------------------------------------
(* convert_insert *)

\* r'^\s*INSERT\s+'
re_insert_line == Cat(<<Bos, Star(Space), Lit(<<"I", "N", "S", "E", "R", "T">>), Plus(Space)>>)

\* r'INSERT\s+(?:\[dbo\]\.)?(?:\[)?([^\]]+)(?:\])?\s*\('
re_insert_table ==
    Cat(<<Lit(<<"I", "N", "S", "E", "R", "T">>), Plus(Space), Opt(Lit(<<"[", "d", "b", "o", "]", ".">>)), Opt(Ch({"["})),
          Grp(1, Plus(NotCh({"]"}))), Opt(Ch({"]"})), Star(Space), Ch({"("})>>)

\* r'\((.*?)\)\s*VALUES'
re_columns ==
    Cat(<<Ch({"("}), Grp(1, LazyStar(AnyChar)), Ch({")"}), Star(Space), Lit(<<"V", "A", "L", "U", "E", "S">>)>>)

\* r'VALUES\s*\((.*)\)'
re_values ==
    Cat(<<Lit(<<"V", "A", "L", "U", "E", "S">>), Star(Space), Ch({"("}), Grp(1, Star(AnyChar)), Ch({")"})>>)

\* r'VALUES\s*\((.*?)\)'
re_all_values ==
    Cat(<<Lit(<<"V", "A", "L", "U", "E", "S">>), Star(Space), Ch({"("}), Grp(1, LazyStar(AnyChar)), Ch({")"})>>)

\* r'^-?\d+(\.\d+)?$'
re_number ==
    Cat(<<Bos, Opt(Ch({"-"})), Plus(Digit), Opt(Grp(1, Cat(<<Ch({"."}), Plus(Digit)>>))), Eos>>)

\* r"CAST\(([^AS]+)AS\s+([^\)]+)\)"
re_cast ==
    Cat(<<Lit(<<"C", "A", "S", "T", "(">>), Grp(1, Plus(NotCh({"A", "S"}))), Lit(<<"A", "S">>), Plus(Space),
          Grp(2, Plus(NotCh({")"}))), Ch({")"})>>)

\* The loop over statement.split('\n') that gathers the INSERT statements:
\* st is (insert_statements, current_stmt, in_insert).
RECURSIVE gather_inserts(_, _)
gather_inserts(lines, st) ==
    IF lines = <<>>
    THEN IF st.in_insert /\ st.current_stmt # <<>>
         THEN Append(st.insert_statements, st.current_stmt)
         ELSE st.insert_statements
    ELSE LET line == Head(lines)
         IN IF re_search(re_insert_line, line, TRUE).ok
            THEN gather_inserts(Tail(lines),
                     [insert_statements |->
                          IF st.in_insert /\ st.current_stmt # <<>>
                          THEN Append(st.insert_statements, st.current_stmt)
                          ELSE st.insert_statements,
                      current_stmt |-> line, in_insert |-> TRUE])
            ELSE IF st.in_insert
            THEN gather_inserts(Tail(lines),
                     [st EXCEPT !.current_stmt = @ \o <<"\n">> \o line])
            ELSE gather_inserts(Tail(lines), st)

\* One step of the value scanner on char; None is "".
scan_value_char(st, char) ==
    IF char \in {"'", "\""} /\ (st.string_char = "" \/ char = st.string_char)
    THEN [st EXCEPT !.in_string = ~st.in_string,
                    !.string_char = IF st.in_string THEN "" ELSE char,
                    !.current_value = Append(@, char)]
    ELSE IF char = "(" /\ ~st.in_string
    THEN [st EXCEPT !.bracket_count = @ + 1, !.current_value = Append(@, char)]
    ELSE IF char = ")" /\ ~st.in_string
    THEN [st EXCEPT !.bracket_count = @ - 1, !.current_value = Append(@, char)]
    ELSE IF char = "," /\ st.bracket_count = 0 /\ ~st.in_string
    THEN [st EXCEPT !.values = Append(@, strip(st.current_value)), !.current_value = <<>>]
    ELSE [st EXCEPT !.current_value = Append(@, char)]

\* for char in values_str, over the characters lo..hi: the first half, then
\* the second from the state the first half left
RECURSIVE scan_values(_, _, _, _)
scan_values(s, st, lo, hi) ==
    IF lo > hi THEN st
    ELSE IF lo = hi THEN scan_value_char(st, s[lo])
    ELSE CHOOSE r \in {scan_values(s, half, (lo + hi) \div 2 + 1, hi) :
                       half \in {scan_values(s, st, lo, (lo + hi) \div 2)}} : TRUE

\* After the loop: the last field is appended when it is not empty.
finish_values(st) ==
    IF st.current_value # <<>> THEN Append(st.values, strip(st.current_value)) ELSE st.values

\* The scanner that splits the VALUES body into fields.
split_values(values_str) ==
    finish_values(scan_values(values_str,
        [values |-> <<>>, current_value |-> <<>>, bracket_count |-> 0,
         in_string |-> FALSE, string_char |-> ""], 1, Len(values_str)))

\* f"{cast_value}::{pg_type}"
cast_text(cast_value, cast_type) ==
    cast_value \o <<":", ":">> \o type_mapping_get(upper(cast_type), lower(cast_type))

\* The CAST branch: nothing is appended when cast_match is None.
cast_literal(value, cast_match) ==
    IF cast_match.ok
    THEN <<cast_text(strip(group(value, cast_match, 1)), strip(group(value, cast_match, 2)))>>
    ELSE <<>>

\* The conversion of one field: the literals it appends to processed_values.
process_value(value) ==
    IF upper(value) = <<"N", "U", "L", "L">> THEN <<<<"N", "U", "L", "L">>>>
    ELSE IF re_match_at(re_number, value, 1, FALSE).ok THEN <<value>>
    ELSE IF startswith(value, <<"N", "'">>) THEN <<Tail(value)>>
    ELSE IF contains(upper(value), <<"C", "A", "S", "T">>)
    THEN cast_literal(value, re_search(re_cast, value, TRUE))
    ELSE <<value>>

RECURSIVE process_values(_)
process_values(values) ==
    IF values = <<>> THEN <<>>
    ELSE process_value(strip(Head(values))) \o process_values(Tail(values))

\* An emitted statement keeps its parts; insert_text is the f-string.
insert_text(ins) ==
    <<"I", "N", "S", "E", "R", "T", " ", "I", "N", "T", "O", " ">> \o ins.table_name \o <<" ", "(">> \o join(<<",", " ">>, ins.columns)
    \o <<")", " ", "V", "A", "L", "U", "E", "S", " ", "(">> \o join(<<",", " ">>, ins.processed_values) \o <<")", ";">>

\* "if len(processed_values) == len(columns)": the statement of one value_set
value_set_statement(table_name, columns, processed_values) ==
    IF Len(processed_values) = Len(columns)
    THEN <<[table_name |-> table_name, columns |-> columns,
            processed_values |-> processed_values]>>
    ELSE <<>>

\* The multi-VALUES pass: one statement per value_set whose processed
\* values are as many as the columns.
RECURSIVE process_value_sets(_, _, _)
process_value_sets(all_values_match, table_name, columns) ==
    IF all_values_match = <<>> THEN <<>>
    ELSE value_set_statement(table_name, columns,
                             process_values(split_values(Head(all_values_match))))
         \o process_value_sets(Tail(all_values_match), table_name, columns)

\* values.extend(['NULL'] * (n - len(values))), or values[:n]
repair_values(values, n) ==
    IF Len(values) < n THEN values \o [i \in 1..(n - Len(values)) |-> <<"N", "U", "L", "L">>]
    ELSE IF Len(values) > n THEN SubSeq(values, 1, n)
    ELSE values

\* The single statement of the main path.
single_statement(table_name, columns, values) ==
    <<[table_name |-> table_name, columns |-> columns,
       processed_values |-> process_values(values)]>>

\* "if len(all_values_match) > 1 ... if processed_statements", else the repair
mismatch_statements(table_name, columns, values, all_values_match, processed_statements) ==
    IF Len(all_values_match) > 1 /\ processed_statements # <<>>
    THEN [stmts |-> processed_statements, warned |-> FALSE]
    ELSE [stmts |-> single_statement(table_name, columns, repair_values(values, Len(columns))),
          warned |-> TRUE]

multi_values(table_name, columns, values, all_values_match) ==
    mismatch_statements(table_name, columns, values, all_values_match,
                        process_value_sets(all_values_match, table_name, columns))

\* "if len(values) != len(columns)" and the paths after it
insert_statements_of(insert_stmt, table_name, columns, values) ==
    IF Len(values) # Len(columns)
    THEN multi_values(table_name, columns, values, re_findall(re_all_values, insert_stmt, TRUE))
    ELSE [stmts |-> single_statement(table_name, columns, values), warned |-> FALSE]

\* columns = [clean_identifier(col) for col in columns_match.group(1).split(',')]
clean_columns(cols) == [i \in 1..Len(cols) |-> clean_identifier(cols[i])]

\* The body of the loop once the three patterns were searched.
insert_of_matches(insert_stmt, table_match, columns_match, values_match) ==
    IF ~table_match.ok \/ ~columns_match.ok \/ ~values_match.ok
    THEN [stmts |-> <<>>, warned |-> FALSE]
    ELSE insert_statements_of(insert_stmt,
             clean_identifier(group(insert_stmt, table_match, 1)),
             clean_columns(split_char(group(insert_stmt, columns_match, 1), ",")),
             split_values(group(insert_stmt, values_match, 1)))

\* The body of the loop over insert_statements: the statements it appends
\* to converted_statements, and whether the count warning was logged.
convert_one_insert(insert_stmt) ==
    insert_of_matches(insert_stmt,
        re_search(re_insert_table, insert_stmt, TRUE),
        re_search(re_columns, insert_stmt, TRUE),
        re_search(re_values, insert_stmt, TRUE))

both_inserts(one, others) ==
    [stmts |-> one.stmts \o others.stmts, warned |-> one.warned \/ others.warned]

RECURSIVE convert_inserts(_)
convert_inserts(insert_statements) ==
    IF insert_statements = <<>> THEN [stmts |-> <<>>, warned |-> FALSE]
    ELSE both_inserts(convert_one_insert(Head(insert_statements)),
                      convert_inserts(Tail(insert_statements)))

\* '\n'.join(converted_statements)
joined_inserts(res) ==
    [text |-> join(<<"\n">>, [i \in 1..Len(res.stmts) |-> insert_text(res.stmts[i])]),
     stmts |-> res.stmts, warned |-> res.warned]

\* "if not insert_statements: return statement", else the loop and the join
converted_inserts(statement, insert_statements) ==
    IF insert_statements = <<>>
    THEN [text |-> statement, stmts |-> <<>>, warned |-> FALSE]
    ELSE joined_inserts(convert_inserts(insert_statements))

\* convert_insert: text is the returned string; stmts are the INSERT
\* statements it is joined from (empty when the statement is dropped or
\* returned as it came).
convert_insert(statement) ==
    IF contains(upper(statement), <<"S", "E", "T", " ", "I", "D", "E", "N", "T", "I", "T", "Y", "_", "I", "N", "S", "E", "R", "T">>)
    THEN [text |-> <<>>, stmts |-> <<>>, warned |-> FALSE]
    ELSE converted_inserts(statement,
             gather_inserts(split_char(statement, "\n"),
                 [insert_statements |-> <<>>, current_stmt |-> <<>>, in_insert |-> FALSE]))

----------------------------------------------------------------------------
(* convert_create_table *)

\* r'CREATE\s+TABLE\s+(?:\[dbo\]\.)?(?:\[)?([^\]]+)(?:\])?'
re_create_table ==
    Cat(<<Lit(<<"C", "R", "E", "A", "T", "E">>), Plus(Space), Lit(<<"T", "A", "B", "L", "E">>), Plus(Space), Opt(Lit(<<"[", "d", "b", "o", "]", ".">>)),
          Opt(Ch({"["})), Grp(1, Plus(NotCh({"]"}))), Opt(Ch({"]"}))>>)

\* r'\((.*)\)\s*ON\s*\[PRIMARY\]'
re_content_on_primary ==
    Cat(<<Ch({"("}), Grp(1, Star(AnyChar)), Ch({")"}), Star(Space), Lit(<<"O", "N">>), Star(Space),
          Lit(<<"[", "P", "R", "I", "M", "A", "R", "Y", "]">>)>>)

\* r'\((.*?)\)(?:\s*GO)?$'
re_content_at_end ==
    Cat(<<Ch({"("}), Grp(1, LazyStar(AnyChar)), Ch({")"}),
          Opt(Cat(<<Star(Space), Lit(<<"G", "O">>)>>)), Eos>>)

\* r'PRIMARY\s+KEY\s+CLUSTERED\s*\(\s*\[?([^\]]+)\]?\s*(?:ASC|DESC)?\s*\)'
re_pk_clustered ==
    Cat(<<Lit(<<"P", "R", "I", "M", "A", "R", "Y">>), Plus(Space), Lit(<<"K", "E", "Y">>), Plus(Space), Lit(<<"C", "L", "U", "S", "T", "E", "R", "E", "D">>),
          Star(Space), Ch({"("}), Star(Space), Opt(Ch({"["})), Grp(1, Plus(NotCh({"]"}))),
          Opt(Ch({"]"})), Star(Space), Opt(Alt(<<Lit(<<"A", "S", "C">>), Lit(<<"D", "E", "S", "C">>)>>)),
          Star(Space), Ch({")"})>>)

\* r'PRIMARY\s+KEY\s*\(\s*\[?([^\]]+)\]?\s*(?:ASC|DESC)?\s*\)'
re_pk_constraint ==
    Cat(<<Lit(<<"P", "R", "I", "M", "A", "R", "Y">>), Plus(Space), Lit(<<"K", "E", "Y">>),
          Star(Space), Ch({"("}), Star(Space), Opt(Ch({"["})), Grp(1, Plus(NotCh({"]"}))),
          Opt(Ch({"]"})), Star(Space), Opt(Alt(<<Lit(<<"A", "S", "C">>), Lit(<<"D", "E", "S", "C">>)>>)),
          Star(Space), Ch({")"})>>)

\* r'WITH\s*\('
re_with == Cat(<<Lit(<<"W", "I", "T", "H">>), Star(Space), Ch({"("})>>)

\* r'\b' + re.escape(mssql_type) + r'(?:\s*\(\s*(\d+)(?:\s*,\s*\d+)?\s*\))?'
type_pattern(mssql_type) ==
    Cat(<<WordBoundary, Lit(mssql_type),
          Opt(Cat(<<Star(Space), Ch({"("}), Star(Space), Grp(1, Plus(Digit)),
                    Opt(Cat(<<Star(Space), Ch({","}), Star(Space), Plus(Digit)>>)),
                    Star(Space), Ch({")"})>>))>>)

\* r'IDENTITY\(\d+,\s*\d+\)'
re_identity ==
    Cat(<<Lit(<<"I", "D", "E", "N", "T", "I", "T", "Y", "(">>), Plus(Digit), Ch({","}), Star(Space), Plus(Digit), Ch({")"})>>)

\* definition.replace(old_type, new_type)
replace_type(definition, old_type) ==
    replace(definition, old_type, convert_type_with_size(old_type))

\* The keys of TYPE_MAPPING whose pattern is found in the definition
found_types(definition) ==
    {i \in 1..Len(TYPE_MAPPING) :
         re_search(type_pattern(TYPE_MAPPING[i][1]), definition, TRUE).ok}

\* The loop over TYPE_MAPPING.keys(): the first key whose pattern is found
\* has its matched text replaced, and the loop breaks.
converted_types(definition, found) ==
    IF found = {} THEN definition
    ELSE replace_type(definition,
             group(definition,
                   re_search(type_pattern(TYPE_MAPPING[Min(found)][1]), definition, TRUE), 0))

convert_types(definition) == converted_types(definition, found_types(definition))

\* An ordinary column definition: the types, then IDENTITY, then the brackets
convert_column(definition) ==
    CHOOSE r \in {clean_identifier(re_sub(re_identity, <<"S", "E", "R", "I", "A", "L">>, 0, typed, TRUE)) :
                  typed \in {convert_types(definition)}} : TRUE

\* parts.append(column), for a column that is not empty
append_column(st, column) == IF column # <<>> THEN [st EXCEPT !.parts = Append(@, column)] ELSE st

\* primary_key_columns.append(clean_identifier(pk_match.group(1)))
append_primary_key(st, definition, pk_match) ==
    [st EXCEPT !.primary_key_columns = Append(@, clean_identifier(group(definition, pk_match, 1)))]

\* The CONSTRAINT branch
constraint_definition(st, definition, pk_match) ==
    IF pk_match.ok THEN append_primary_key(st, definition, pk_match) ELSE st

\* The branches after the search for PRIMARY KEY CLUSTERED
classified(st, definition, pk_match) ==
    IF pk_match.ok THEN append_primary_key(st, definition, pk_match)
    ELSE IF contains(upper(definition), <<"C", "O", "N", "S", "T", "R", "A", "I", "N", "T">>)
            /\ contains(upper(definition), <<"P", "R", "I", "M", "A", "R", "Y", " ", "K", "E", "Y">>)
    THEN constraint_definition(st, definition, re_search(re_pk_constraint, definition, TRUE))
    ELSE IF ~re_search(re_with, definition, TRUE).ok
    THEN append_column(st, convert_column(definition))
    ELSE st

\* "if definition:" and the classification
classify(st, definition) ==
    IF definition = <<>> THEN st
    ELSE classified(st, definition, re_search(re_pk_clustered, definition, TRUE))

\* A definition that ends with a top-level comma: st is
\* (parts, primary_key_columns, current_definition, bracket_count).
classify_definition(st) == classify(st, rstrip_char(strip(st.current_definition), ","))

\* The branches of the loop body once char was appended
scanned_char(st, char) ==
    IF char = "(" THEN [st EXCEPT !.bracket_count = @ + 1]
    ELSE IF char = ")" THEN [st EXCEPT !.bracket_count = @ - 1]
    ELSE IF char = "," /\ st.bracket_count = 0
    THEN [classify_definition(st) EXCEPT !.current_definition = <<>>]
    ELSE st

\* One step of the loop over content
scan_content_char(st, char) ==
    scanned_char([st EXCEPT !.current_definition = Append(@, char)], char)

\* "if definition and not re.search(r'WITH\s*\(', ...)": the definition left
\* after the loop
append_last(st, definition) ==
    IF definition # <<>> /\ ~re_search(re_with, definition, TRUE).ok
    THEN [st EXCEPT !.parts = Append(@, clean_identifier(definition))]
    ELSE st

last_definition(st) == append_last(st, strip(st.current_definition))

\* "if primary_key_columns: parts.append(...)"
with_primary_key(parts, primary_key_columns) ==
    IF primary_key_columns # <<>>
    THEN Append(parts, <<"P", "R", "I", "M", "A", "R", "Y", " ", "K", "E", "Y", " ", "(">> \o join(<<",", " ">>, primary_key_columns) \o <<")">>)
    ELSE parts

\* The result for a statement that is dropped or returned as it came
unparsed(text) ==
    [text |-> text, parsed |-> FALSE, table_name |-> <<>>, parts |-> <<>>,
     primary_key_columns |-> <<>>]

\* The returned CREATE TABLE text
create_table_result(table_name, parts, primary_key_columns) ==
    [text |-> <<"C", "R", "E", "A", "T", "E", " ", "T", "A", "B", "L", "E", " ">> \o table_name \o <<" ", "(", "\n", " ", " ", " ", " ">>
              \o join(<<",", "\n", " ", " ", " ", " ">>, parts) \o <<"\n", ")", ";">>,
     parsed |-> TRUE, table_name |-> table_name, parts |-> parts,
     primary_key_columns |-> primary_key_columns]

create_table_of(table_name, st) ==
    create_table_result(table_name, with_primary_key(st.parts, st.primary_key_columns),
                        st.primary_key_columns)

\* main_content: the ON [PRIMARY] pattern, else the pattern at the end
content_match(statement, on_primary) ==
    IF on_primary.ok THEN on_primary ELSE re_search(re_content_at_end, statement, TRUE)

main_content(statement) ==
    content_match(statement, re_search(re_content_on_primary, statement, TRUE))

table_match(statement) == re_search(re_create_table, statement, TRUE)

\* The state before the loop over content
scan_table(statement) ==
    [table_name |-> clean_identifier(group(statement, table_match(statement), 1)),
     content |-> group(statement, main_content(statement), 1),
     index |-> 1, parts |-> <<>>, primary_key_columns |-> <<>>,
     current_definition |-> <<>>, bracket_count |-> 0]

no_table ==
    [table_name |-> <<>>, content |-> <<>>, index |-> 0, parts |-> <<>>,
     primary_key_columns |-> <<>>, current_definition |-> <<>>, bracket_count |-> 0]

----------------------------------------------------------------------------
(* convert_mssql_to_postgresql: the converter's state.                     *)

VARIABLES
    pc,                    \* where the program stands
    content,               \* the text read from the input file
    blocks,                \* re.split(r'\bGO\b', content)
    block_index,           \* the block the loop "for block in blocks" is at
    char_index,            \* the character the loop "for char in block" is at
    scan,                  \* statements, current_stmt, in_string, string_char
    stmt_index,            \* the statement the loop "for stmt in statements" is at
    converted_statements,  \* the statements to write
    output,                \* the text written to the output file
    input,                 \* the parts the converter's argument is built from
    statement,             \* the argument of the converter that is called
    converted,             \* what the converter returned
    table                  \* convert_create_table: its locals in the loop over content

vars == <<pc, content, blocks, block_index, char_index, scan, stmt_index,
          converted_statements, output, input, statement, converted, table>>

run_vars == <<content, blocks, block_index, char_index, scan, stmt_index,
              converted_statements, output>>

call_vars == <<input, statement, converted, table>>

\* r'\bGO\b'
re_go == Cat(<<WordBoundary, Lit(<<"G", "O">>), WordBoundary>>)

\* The scanner step in which either quote character closes an open string
scan_statement_char_any_quote(st, char) ==
    IF char \in {"'", "\""}
    THEN [st EXCEPT !.in_string = ~st.in_string,
                    !.string_char = IF st.in_string THEN "" ELSE char,
                    !.current_stmt = Append(@, char)]
    ELSE IF char = ";" /\ ~st.in_string
    THEN [st EXCEPT !.statements =
                        IF strip(Append(st.current_stmt, char)) # <<>>
                        THEN Append(@, strip(Append(st.current_stmt, char))) ELSE @,
                    !.current_stmt = <<>>]
    ELSE [st EXCEPT !.current_stmt = Append(@, char)]

\* One step of the statement scanner on char; None is "".
scan_statement_char(st, char) ==
    IF char \in {"'", "\""} /\ (st.string_char = "" \/ char = st.string_char)
    THEN [st EXCEPT !.in_string = ~st.in_string,
                    !.string_char = IF st.in_string THEN "" ELSE char,
                    !.current_stmt = Append(@, char)]
    ELSE IF char = ";" /\ ~st.in_string
    THEN [st EXCEPT !.statements =
                        IF strip(Append(st.current_stmt, char)) # <<>>
                        THEN Append(@, strip(Append(st.current_stmt, char))) ELSE @,
                    !.current_stmt = <<>>]
    ELSE [st EXCEPT !.current_stmt = Append(@, char)]

scan_start ==
    [statements |-> <<>>, current_stmt |-> <<>>, in_string |-> FALSE, string_char |-> ""]

\* "if converted: converted_statements.append(converted)"
append_converted(text) == IF text # <<>> THEN <<text>> ELSE <<>>

\* "if stmt.endswith(';'): stmt = stmt[:-1]"
without_semicolon(stmt) ==
    IF endswith(stmt, <<";">>) THEN SubSeq(stmt, 1, Len(stmt) - 1) ELSE stmt

\* The branch of the loop body that stmt takes
branch(stmt) ==
    IF stmt = <<>> THEN "continue"
    ELSE IF contains(upper(stmt), <<"C", "R", "E", "A", "T", "E", " ", "T", "A", "B", "L", "E">>) THEN "create"
    ELSE IF contains(upper(stmt), <<"I", "N", "S", "E", "R", "T">>) THEN "insert"
    ELSE IF ~(contains(upper(stmt), <<"U", "S", "E">>) \/ contains(upper(stmt), <<"S", "E", "T">>)) THEN "other"
    ELSE "continue"

\* f.write(f"{stmt}\n\n") for every converted statement
RECURSIVE written(_)
written(stmts) ==
    IF stmts = <<>> THEN <<>> ELSE Head(stmts) \o <<"\n", "\n">> \o written(Tail(stmts))

----------------------------------------------------------------------------
(* The input files of the model: texts of at most MaxPieces pieces, and    *)
(* two small dumps that reach the converters.                              *)

MaxPieces == 4

Pieces == {<<"a">>, <<";">>, <<"'">>, <<"\"">>, <<"\n", "G", "O", "\n">>, <<"g", "o">>}

RECURSIVE texts_of(_, _)
texts_of(pieces, n) ==
    IF n = 0 THEN {<<>>}
    ELSE texts_of(pieces, n - 1) \cup {t \o p : t \in texts_of(pieces, n - 1), p \in pieces}

SampleFiles ==
    {<<"U", "S", "E", " ", "[", "d", "b", "]", "\n", "G", "O", "\n", "C", "R", "E", "A", "T", "E", " ", "T", "A", "B", "L", "E", " ", "[", "d", "b", "o", "]", ".", "[", "T", "]", " ", "(", "[", "a", "]", " ", "I", "N", "T", ")", " ", "O", "N", " ", "[", "P", "R", "I", "M", "A", "R", "Y", "]", "\n", "G", "O", "\n">>,
     <<"I", "N", "S", "E", "R", "T", " ", "[", "d", "b", "o", "]", ".", "[", "T", "]", " ", "(", "[", "a", "]", ")", " ", "V", "A", "L", "U", "E", "S", " ", "(", "N", "'", "x", ";", "y", "'", ")", ";", "\n", "S", "E", "L", "E", "C", "T", " ", "[", "a", "]", " ", "F", "R", "O", "M", " ", "[", "T", "]">>}

Init ==
    /\ pc = "read"
    /\ (content \in texts_of(Pieces, MaxPieces) \/ content \in SampleFiles)
    /\ blocks = <<>>
    /\ block_index = 0
    /\ char_index = 0
    /\ scan = scan_start
    /\ stmt_index = 0
    /\ converted_statements = <<>>
    /\ output = <<>>
    /\ input = <<>>
    /\ statement = <<>>
    /\ converted = <<>>
    /\ table = no_table

\* content = read_sql_file(input_file); blocks = re.split(...)
SplitBlocks ==
    /\ pc = "read"
    /\ blocks' = re_split(re_go, content, TRUE)
    /\ block_index' = 1
    /\ pc' = "block"
    /\ UNCHANGED <<content, char_index, scan, stmt_index, converted_statements, output,
                   call_vars>>

\* for block in blocks: a blank block is skipped
NextBlock ==
    /\ pc = "block"
    /\ block_index <= Len(blocks)
    /\ IF strip(blocks[block_index]) = <<>>
       THEN /\ block_index' = block_index + 1
            /\ UNCHANGED <<pc, scan, char_index>>
       ELSE /\ scan' = scan_start
            /\ char_index' = 1
            /\ pc' = "scan"
            /\ UNCHANGED block_index
    /\ UNCHANGED <<content, blocks, stmt_index, converted_statements, output, call_vars>>

\* for char in block
ScanChar ==
    /\ pc = "scan"
    /\ char_index <= Len(blocks[block_index])
    /\ scan' = scan_statement_char(scan, blocks[block_index][char_index])
    /\ char_index' = char_index + 1
    /\ UNCHANGED <<pc, content, blocks, block_index, stmt_index, converted_statements,
                   output, call_vars>>

\* after the loop: the text left in current_stmt is the last statement
EndScan ==
    /\ pc = "scan"
    /\ char_index > Len(blocks[block_index])
    /\ scan' = IF strip(scan.current_stmt) # <<>>
               THEN [scan EXCEPT !.statements = Append(@, strip(scan.current_stmt))]
               ELSE scan
    /\ stmt_index' = 1
    /\ pc' = "dispatch"
    /\ UNCHANGED <<content, blocks, block_index, char_index, converted_statements, output,
                   call_vars>>

\* for stmt in statements: a converter is called, or the statement is
\* cleaned, or it is left out
Dispatch ==
    /\ pc = "dispatch"
    /\ stmt_index <= Len(scan.statements)
    /\ LET stmt == strip(scan.statements[stmt_index])
       IN CASE branch(stmt) = "create" ->
                  /\ statement' = stmt
                  /\ pc' = "create_call"
                  /\ UNCHANGED <<stmt_index, converted_statements>>
            [] branch(stmt) = "insert" ->
                  /\ statement' = stmt
                  /\ pc' = "insert_call"
                  /\ UNCHANGED <<stmt_index, converted_statements>>
            [] branch(stmt) = "other" ->
                  /\ converted_statements' =
                         Append(converted_statements,
                                clean_identifier(without_semicolon(stmt)) \o <<";">>)
                  /\ stmt_index' = stmt_index + 1
                  /\ UNCHANGED <<pc, statement>>
            [] OTHER ->
                  /\ stmt_index' = stmt_index + 1
                  /\ UNCHANGED <<pc, statement, converted_statements>>
    /\ UNCHANGED <<content, blocks, block_index, char_index, scan, output, input, converted,
                   table>>

\* converted = convert_...(stmt); if converted: converted_statements.append(converted)
Return ==
    /\ pc \in {"create_return", "insert_return"}
    /\ converted_statements' = converted_statements \o append_converted(converted.text)
    /\ stmt_index' = stmt_index + 1
    /\ pc' = "dispatch"
    /\ UNCHANGED <<content, blocks, block_index, char_index, scan, output, call_vars>>

EndBlock ==
    /\ pc = "dispatch"
    /\ stmt_index > Len(scan.statements)
    /\ block_index' = block_index + 1
    /\ pc' = "block"
    /\ UNCHANGED <<content, blocks, char_index, scan, stmt_index, converted_statements,
                   output, call_vars>>

\* with open(output_file, 'w') as f: ...
WriteOutput ==
    /\ pc = "block"
    /\ block_index > Len(blocks)
    /\ output' = written(converted_statements)
    /\ pc' = "done"
    /\ UNCHANGED <<content, blocks, block_index, char_index, scan, stmt_index,
                   converted_statements, call_vars>>

\* convert_create_table up to the loop over content
CreateTableCall ==
    /\ pc = "create_call"
    /\ IF startswith(upper(statement), <<"U", "S", "E">>)
       THEN /\ converted' = unparsed(<<>>)
            /\ pc' = "create_return"
            /\ UNCHANGED table
       ELSE IF ~table_match(statement).ok \/ ~main_content(statement).ok
       THEN /\ converted' = unparsed(statement)
            /\ pc' = "create_return"
            /\ UNCHANGED table
       ELSE /\ table' = scan_table(statement)
            /\ pc' = "create_scan"
            /\ UNCHANGED converted
    /\ UNCHANGED <<run_vars, input, statement>>

\* for char in content
CreateTableChar ==
    /\ pc = "create_scan"
    /\ table.index <= Len(table.content)
    /\ table' = [scan_content_char(table, table.content[table.index]) EXCEPT !.index = @ + 1]
    /\ UNCHANGED <<pc, run_vars, input, statement, converted>>

\* after the loop: the last definition, the PRIMARY KEY clause and the text
CreateTableEnd ==
    /\ pc = "create_scan"
    /\ table.index > Len(table.content)
    /\ converted' = create_table_of(table.table_name, last_definition(table))
    /\ pc' = "create_return"
    /\ UNCHANGED <<run_vars, input, statement, table>>

\* converted = convert_insert(statement)
ConvertInsert ==
    /\ pc = "insert_call"
    /\ converted' = convert_insert(statement)
    /\ pc' = "insert_return"
    /\ UNCHANGED <<run_vars, input, statement, table>>

Next ==
    \/ SplitBlocks \/ NextBlock \/ ScanChar \/ EndScan \/ Dispatch \/ Return \/ EndBlock
    \/ WriteOutput \/ CreateTableCall \/ CreateTableChar \/ CreateTableEnd \/ ConvertInsert

Spec == Init /\ [][Next]_vars

----------------------------------------------------------------------------
(* clean_identifier applied to its own result.                             *)

MaxIdentPieces == 5

IdentPieces == {<<"[">>, <<"]">>, <<"[", "d", "b", "o", "]", ".">>, <<"a">>, <<"B">>, <<" ">>}

run_idle ==
    /\ content = <<>>
    /\ blocks = <<>>
    /\ block_index = 0
    /\ char_index = 0
    /\ scan = scan_start
    /\ stmt_index = 0
    /\ converted_statements = <<>>
    /\ output = <<>>

InitClean ==
    /\ pc = "clean_call"
    /\ input \in texts_of(IdentPieces, MaxIdentPieces)
    /\ statement = <<>>
    /\ converted = <<>>
    /\ table = no_table
    /\ run_idle

\* statement = clean_identifier(input)
CleanOnce ==
    /\ pc = "clean_call"
    /\ statement' = clean_identifier(input)
    /\ pc' = "clean_again"
    /\ UNCHANGED <<input, converted, table, run_vars>>

\* converted = clean_identifier(statement)
CleanTwice ==
    /\ pc = "clean_again"
    /\ converted' = clean_identifier(statement)
    /\ pc' = "clean_return"
    /\ UNCHANGED <<input, statement, table, run_vars>>

NextClean == CleanOnce \/ CleanTwice

SpecClean == InitClean /\ [][NextClean]_vars

----------------------------------------------------------------------------
(* convert_insert applied to one INSERT: a header, a column list and       *)
(* VALUES groups of fields.                                                *)

MaxColumns == 2

MaxValueGroups == 2

MaxFields == 2

InsertHeaders == {<<"I", "N", "S", "E", "R", "T", " ", "[", "d", "b", "o", "]", ".", "[", "T", "]">>, <<"I", "N", "S", "E", "R", "T", " ", "I", "N", "T", "O", " ", "[", "d", "b", "o", "]", ".", "[", "T", "]">>}

ColumnNames == <<<<"[", "a", "]">>, <<"[", "B", "]">>, <<"[", "c", "]">>, <<"[", "d", "]">>>>

Fields ==
    {<<"1">>, <<"N", "U", "L", "L">>, <<"N", "'", "A", "l", "'">>, <<"'", "x", ",", "y", "'">>, <<"C", "A", "S", "T", "(", "5", " ", "A", "S", " ", "B", "I", "T", ")">>, <<"C", "A", "S", "T", "(", "N", "'", "S", "a", "m", "'", " ", "A", "S", " ", "N", "T", "E", "X", "T", ")">>}

\* the sequences over S of length lo..hi
seqs_of(S, lo, hi) == UNION {[1..n -> S] : n \in lo..hi}

\* " VALUES (f1, f2)" for every group
RECURSIVE groups_text(_)
groups_text(groups) ==
    IF groups = <<>> THEN <<>>
    ELSE <<" ", "V", "A", "L", "U", "E", "S", " ", "(">> \o join(<<",", " ">>, Head(groups)) \o <<")">> \o groups_text(Tail(groups))

insert_statement(inp) ==
    inp.header \o <<" ", "(">> \o join(<<",", " ">>, SubSeq(ColumnNames, 1, inp.columns)) \o <<")">>
    \o groups_text(inp.groups) \o <<";">>

InitInsert ==
    /\ pc = "insert_call"
    /\ input \in [header : InsertHeaders, columns : 1..MaxColumns,
                  groups : seqs_of(seqs_of(Fields, 0, MaxFields), 1, MaxValueGroups)]
    /\ statement = insert_statement(input)
    /\ converted = <<>>
    /\ table = no_table
    /\ run_idle

NextInsert == ConvertInsert

SpecInsert == InitInsert /\ [][NextInsert]_vars

----------------------------------------------------------------------------
(* convert_create_table applied to one CREATE TABLE: its definitions and   *)
(* what follows the column list.                                           *)

MaxDefinitions == 3

Definitions ==
    {<<"[", "a", "]", " ", "I", "N", "T">>, <<"[", "n", "]", " ", "N", "V", "A", "R", "C", "H", "A", "R", "(", "5", "0", ")">>, <<"[", "i", "d", "]", " ", "I", "N", "T", " ", "I", "D", "E", "N", "T", "I", "T", "Y", "(", "1", ",", "1", ")", " ", "N", "O", "T", " ", "N", "U", "L", "L">>,
     <<"P", "R", "I", "M", "A", "R", "Y", " ", "K", "E", "Y", " ", "C", "L", "U", "S", "T", "E", "R", "E", "D", " ", "(", "[", "i", "d", "]", " ", "A", "S", "C", ")">>, <<"[", "b", "i", "t", "r", "a", "t", "e", "]", " ", "I", "N", "T">>, <<"[", "m", "]", " ", "M", "O", "N", "E", "Y", " ", "N", "U", "L", "L">>}

Tails == {<<>>, <<";">>, <<" ", "O", "N", " ", "[", "P", "R", "I", "M", "A", "R", "Y", "]">>, <<" ", "O", "N", " ", "[", "P", "R", "I", "M", "A", "R", "Y", "]", ";">>}

create_statement(inp) ==
    <<"C", "R", "E", "A", "T", "E", " ", "T", "A", "B", "L", "E", " ", "[", "d", "b", "o", "]", ".", "[", "T", "]", " ", "(">> \o join(<<",", " ">>, inp.defs) \o <<")">> \o inp.tail

InitCreate ==
    /\ pc = "create_call"
    /\ input \in [defs : seqs_of(Definitions, 1, MaxDefinitions), tail : Tails]
    /\ statement = create_statement(input)
    /\ converted = <<>>
    /\ table = no_table
    /\ run_idle

NextCreate == CreateTableCall \/ CreateTableChar \/ CreateTableEnd

SpecCreate == InitCreate /\ [][NextCreate]_vars

----------------------------------------------------------------------------
(* The statement scanner and the batch split, against their description.   *)

\* The quote that is open after the characters lo..hi of s, q being open
\* before them ("" for none): a quote opens a string when none is open, and
\* only the same quote closes it.
RECURSIVE open_quote(_, _, _, _)
open_quote(s, q, lo, hi) ==
    IF lo > hi THEN q
    ELSE IF lo = hi
    THEN (IF q = "" THEN (IF s[lo] \in {"'", "\""} THEN s[lo] ELSE "")
          ELSE IF s[lo] = q THEN "" ELSE q)
    ELSE CHOOSE r \in {open_quote(s, half, (lo + hi) \div 2 + 1, hi) :
                       half \in {open_quote(s, q, lo, (lo + hi) \div 2)}} : TRUE

\* The places of the ';' of s that stand outside every quoted string
terminators(s) == {i \in 1..Len(s) : s[i] = ";" /\ open_quote(s, "", 1, i - 1) = ""}

\* The statements of s from place from on: the text up to each terminator
\* and the text after the last, stripped, the blank ones left out
RECURSIVE statements_from(_, _)
statements_from(s, from) ==
    IF \E i \in terminators(s) : i >= from
    THEN LET t == Min({i \in terminators(s) : i >= from})
         IN <<strip(SubSeq(s, from, t))>> \o statements_from(s, t + 1)
    ELSE IF strip(SubSeq(s, from, Len(s))) # <<>> THEN <<strip(SubSeq(s, from, Len(s)))>>
    ELSE <<>>

\* C2: in the statement scanner a ';' ends the current statement exactly when
\* no quoted string is open, a string being closed only by the quote that
\* opened it: while a batch is scanned the scanner is inside a string exactly
\* when a quote is open, the statements found so far are those ended by the
\* ';' outside strings in input order, and after the scan the statements are
\* these and the non-blank text after the last terminator.
C2_ScannerSplitsOutsideStrings ==
    /\ pc = "scan" =>
          /\ scan.in_string = (open_quote(blocks[block_index], "", 1, char_index - 1) # "")
          /\ scan.string_char = open_quote(blocks[block_index], "", 1, char_index - 1)
          /\ scan.statements \o (IF strip(scan.current_stmt) # <<>>
                                 THEN <<strip(scan.current_stmt)>> ELSE <<>>)
             = statements_from(SubSeq(blocks[block_index], 1, char_index - 1), 1)
    /\ pc = "dispatch" => scan.statements = statements_from(blocks[block_index], 1)

\* A scanned batch with a ';' inside a string, a ';' outside and text after it
C2_Witness ==
    /\ pc = "dispatch"
    /\ \E i \in 1..Len(blocks[block_index]) :
          /\ blocks[block_index][i] = ";"
          /\ i \notin terminators(blocks[block_index])
    /\ \E i \in terminators(blocks[block_index]) :
          strip(SubSeq(blocks[block_index], i + 1, Len(blocks[block_index]))) # <<>>
    /\ Len(scan.statements) = 2

\* The lines of the text that hold the keyword GO and nothing else
is_go_line(line) == upper(strip(line)) = <<"G", "O">>

\* The batches of the lines: the lines between the GO lines, joined
RECURSIVE batches_of(_, _)
batches_of(lines, batch) ==
    IF lines = <<>> THEN <<batch>>
    ELSE IF is_go_line(Head(lines)) THEN <<batch>> \o batches_of(Tail(lines), <<>>)
    ELSE batches_of(Tail(lines), batch \o Head(lines) \o <<"\n">>)

\* The stripped texts of the batches that are not blank
RECURSIVE nonblank(_)
nonblank(texts) ==
    IF texts = <<>> THEN <<>>
    ELSE (IF strip(Head(texts)) # <<>> THEN <<strip(Head(texts))>> ELSE <<>>)
         \o nonblank(Tail(texts))

\* C3: the text is split into batches only at the keyword GO standing alone on
\* its own line: the batches that are not blank are the texts between the GO
\* lines.
C3_SplitOnlyAtGoLines ==
    pc # "read" => nonblank(blocks) = nonblank(batches_of(split_char(content, "\n"), <<>>))

----------------------------------------------------------------------------
(* clean_identifier, against its description.                              *)

\* Whether a '[' of s follows another '[' with no ']' between them
nested_bracket(s) ==
    \E i, j \in 1..Len(s) :
        /\ i < j
        /\ s[i] = "["
        /\ s[j] = "["
        /\ \A k \in (i + 1)..(j - 1) : s[k] # "]"

\* C9, as stated: clean_identifier is idempotent on every input string,
\* nested-bracket names included: cleaning a cleaned identifier returns it
\* unchanged.
C9_Idempotent == pc = "clean_return" => converted = statement

\* C9, amended: clean_identifier is idempotent on every input string in which
\* no '[' follows another '[' without a ']' between them.
C9_IdempotentWithoutNestedBrackets ==
    (pc = "clean_return" /\ ~nested_bracket(input)) => converted = statement

\* A schema-qualified, bracket-delimited name without nested brackets, cleaned
\* twice: the first cleaning changed it and the second did not
C9_Witness ==
    /\ pc = "clean_return"
    /\ ~nested_bracket(input)
    /\ contains(input, <<"[", "d", "b", "o", "]", ".">>)
    /\ \E i \in 1..Len(input) : input[i] = "]" /\ i > 1 /\ input[i - 1] # "["
    /\ statement # input
    /\ statement # <<>>
    /\ converted = statement

----------------------------------------------------------------------------
(* convert_insert, against its description.                                *)

\* C1: every INSERT statement that convert_insert emits carries as many
\* literals in its VALUES list as it has names in its column list.
C1_LiteralsMatchColumns ==
    pc = "insert_return" =>
        \A i \in 1..Len(converted.stmts) :
            Len(converted.stmts[i].processed_values) = Len(converted.stmts[i].columns)

\* The places of field where " AS " stands
as_places(field) == {i \in 1..(Len(field) - 3) : SubSeq(field, i, i + 3) = <<" ", "A", "S", " ">>}

\* CAST(v AS t) as v::mapped_type
claimed_cast(field, p) ==
    SubSeq(field, 6, p - 1) \o <<":", ":">>
    \o type_mapping_get(upper(SubSeq(field, p + 4, Len(field) - 1)),
                        lower(SubSeq(field, p + 4, Len(field) - 1)))

\* The conversion of a field as described: NULL and numbers unchanged,
\* N'...' with the prefix dropped, CAST(v AS t) as v::mapped_type, anything
\* else unchanged
claimed_literal(field) ==
    IF startswith(field, <<"N", "'">>) THEN Tail(field)
    ELSE IF startswith(upper(field), <<"C", "A", "S", "T", "(">>) /\ as_places(field) # {}
    THEN claimed_cast(field, Max(as_places(field)))
    ELSE field

claimed_literals(fields) == [i \in 1..Len(fields) |-> claimed_literal(fields[i])]

\* The statement described for the literals: the normalized table, the
\* normalized columns in input order, the literals
claimed_statement(inp, literals) ==
    [table_name |-> <<"t">>,
     columns |-> [i \in 1..inp.columns |-> clean_identifier(ColumnNames[i])],
     processed_values |-> literals]

\* C6: for a single INSERT whose VALUES body has as many fields as the column
\* list has names, convert_insert emits exactly one statement, with the
\* normalized columns in input order and, as its i-th literal, the conversion
\* of the i-th field.
C6_EqualCountsPreserved ==
    (pc = "insert_return" /\ Len(input.groups) = 1
       /\ Len(input.groups[1]) = input.columns) =>
        /\ converted.stmts = <<claimed_statement(input, claimed_literals(input.groups[1]))>>
        /\ converted.text =
               insert_text(claimed_statement(input, claimed_literals(input.groups[1])))

\* C7: for an INSERT with one VALUES group whose field count k differs from
\* the column count n, convert_insert emits one statement whose literals are
\* the k converted fields followed by n-k NULL (k < n) or the conversions of
\* the first n fields (k > n), and a warning is logged.
C7_MismatchRepaired ==
    (pc = "insert_return" /\ Len(input.groups) = 1
       /\ Len(input.groups[1]) # input.columns) =>
        /\ converted.stmts =
               <<claimed_statement(input,
                     repair_values(claimed_literals(input.groups[1]), input.columns))>>
        /\ converted.warned

\* The groups whose field count is the column count, in group order
matching_groups(inp) == SelectSeq(inp.groups, LAMBDA g : Len(g) = inp.columns)

\* C8: for an INSERT header followed by more than one VALUES group,
\* convert_insert emits, in group order, one statement per group whose field
\* count equals the column count, and no other statement.
C8_OneStatementPerGroup ==
    (pc = "insert_return" /\ Len(input.groups) > 1) =>
        converted.stmts =
            [i \in 1..Len(matching_groups(input)) |->
                claimed_statement(input, claimed_literals(matching_groups(input)[i]))]

----------------------------------------------------------------------------
(* convert_create_table, against its description.                          *)

\* The classification of the definitions 1..n of defs by the rules of the
\* loop over content
RECURSIVE classified_all(_, _)
classified_all(defs, n) ==
    IF n = 0 THEN [parts |-> <<>>, primary_key_columns |-> <<>>]
    ELSE CHOOSE r \in {classify(st, defs[n]) : st \in {classified_all(defs, n - 1)}} : TRUE

\* The parts of the table whose definitions were classified into st
classified_parts(st) == with_primary_key(st.parts, st.primary_key_columns)

\* C4: every top-level definition of the column list is classified by the
\* same rules whatever its position, the last included: the emitted parts are
\* those of the definitions classified one by one, and the PRIMARY KEY clause
\* of the recorded columns.
C4_LastDefinitionClassified ==
    (pc = "create_return" /\ converted.parsed) =>
        /\ converted.parts = classified_parts(classified_all(input.defs, Len(input.defs)))
        /\ converted.primary_key_columns =
               classified_all(input.defs, Len(input.defs)).primary_key_columns

\* Whether no definition of the table is a primary key
no_primary_key(inp) ==
    \A i \in 1..Len(inp.defs) : ~contains(upper(inp.defs[i]), <<"P", "R", "I", "M", "A", "R", "Y", " ", "K", "E", "Y">>)

\* C5: for a CREATE TABLE with N column definitions and no primary key,
\* whether ON [PRIMARY] follows the column list or the statement closes, with
\* or without ';', convert_create_table emits the table with exactly N
\* definitions in input order and no PRIMARY KEY clause.
C5_ColumnsKeptWithoutPrimaryKey ==
    (pc = "create_return" /\ no_primary_key(input)) =>
        /\ converted.parsed
        /\ startswith(converted.text, <<"C", "R", "E", "A", "T", "E", " ", "T", "A", "B", "L", "E", " ", "t", " ", "(">>)
        /\ Len(converted.parts) = Len(input.defs)
        /\ \A i \in 1..Len(input.defs) :
               /\ converted.parts[i] \in {convert_column(input.defs[i]),
                                          clean_identifier(input.defs[i])}
               /\ ~startswith(converted.parts[i], <<"P", "R", "I", "M", "A", "R", "Y", " ", "K", "E", "Y">>)

\* r'\b' + mssql_type + r'\b' and the size: the type name as a whole word
whole_type_pattern(mssql_type) ==
    Cat(<<WordBoundary, Lit(mssql_type), WordBoundary,
          Opt(Cat(<<Star(Space), Ch({"("}), Star(Space), Grp(1, Plus(Digit)),
                    Opt(Cat(<<Star(Space), Ch({","}), Star(Space), Plus(Digit)>>)),
                    Star(Space), Ch({")"})>>))>>)

\* The TYPE_MAPPING names that occur in the definition as a whole word
whole_types(definition) ==
    {i \in 1..Len(TYPE_MAPPING) :
         re_search(whole_type_pattern(TYPE_MAPPING[i][1]), definition, TRUE).ok}

\* The definition with the text of the match m, and no other, replaced by its
\* converted type
claimed_substitution(definition, m) ==
    SubSeq(definition, 1, m.b - 1) \o convert_type_with_size(group(definition, m, 0))
    \o SubSeq(definition, m.e, Len(definition))

\* The one substitution described: the first name in declaration order that
\* occurs as a whole word
claimed_types(definition, found) ==
    IF found = {} THEN definition
    ELSE claimed_substitution(definition,
             re_search(whole_type_pattern(TYPE_MAPPING[Min(found)][1]), definition, TRUE))

claimed_column(definition) ==
    CHOOSE r \in {clean_identifier(re_sub(re_identity, <<"S", "E", "R", "I", "A", "L">>, 0, typed, TRUE)) :
                  typed \in {claimed_types(definition, whole_types(definition))}} : TRUE

\* C10: in an ordinary column definition exactly one type substitution is
\* made: the first TYPE_MAPPING name that occurs as a whole word is replaced,
\* with its size, by its converted type; a name that is a prefix of a longer
\* word is not replaced and no other occurrence is rewritten.
C10_OneWholeWordSubstitution ==
    (pc = "create_return" /\ converted.parsed /\ no_primary_key(input)) =>
        \A i \in 1..(Len(input.defs) - 1) :
            converted.parts[i] = claimed_column(input.defs[i])
====
